---- MODULE Spec2Model ----
(***************************************************************************)
(* State-machine model of the ink! contract PaymentContract                *)
(* (src/secure_transaction_system/lib.rs): an escrow ledger whose records  *)
(* are claimed with a one-time passcode or refunded after expiry.          *)
(*                                                                         *)
(* Every message body is an operator that computes an outcome: the result  *)
(* it returns and the storage, transfers and events it has produced when   *)
(* it returns.  Dispatch applies the rule of #[ink(message)]: a message    *)
(* that returns Err, or that panics, is reverted by the host, which        *)
(* discards its storage writes, transfers, events and the value sent with  *)
(* the call.                                                               *)
(***************************************************************************)
EXTENDS Integers, Sequences, FiniteSets, TLC

\* ------------------------------------------------------------ bounds
\* u64::MAX, scaled down: Timestamp and the salt live in 0..U64Max.
U64Max == 2
\* Largest amount and funded value a caller tries.
MaxAmount == 2
\* Number of records the ledger may hold before send_payment is no longer tried.
MaxRecords == 1
\* Number of consecutive wrong-OTP calls on one identifier the environment tries.
MaxGuesses == 5
\* threshold_value after construction (u128::pow(10, 14) in the source), scaled.
ThresholdDefault == 1
\* expiry_time after construction (86_400_000 in the source), scaled.
ExpiryDefault == 1
\* Distance between two of the digest bytes that are tried one by one.
ByteStep == 4

\* ------------------------------------------------------------ constants
ATTEMPTS_LIMIT == 3
U8Max == 255

Accounts == {"admin", "alice", "bob"}
\* The accounts that send payments and the accounts they name as receiver.
Senders == {"alice"}
Receivers == {"bob"}
AdminAccount == "admin"
\* The accounts that call get_refund and receive_payment: for every record a
\* caller that is its sender and not its receiver, and one the other way round.
PaymentCallers == Senders \cup Receivers
\* The accounts that call the setters: the administrator and another account.
SetterCallers == {AdminAccount} \cup Senders
Timestamps == 0..U64Max
Amounts == 0..MaxAmount

\* First three bytes of the Keccak256 digest of (timestamp, salt).  The digest
\* is not computed: each call draws one of these outputs, which covers every
\* hash function with this range.  The two outputs differ and yield the same
\* OTP, so that two payments made in one block can collide.
HashOutputs == {<<7, 150, 255>>, <<107, 150, 255>>}
\* A candidate OTP the generator cannot produce (its middle part exceeds 255).
BadOtp == 123456789

None == "None"
Panic == "Panic"
\* The panic of env().transfer(..).unwrap() on a transfer the host refuses.
TransferFailed == "TransferFailed"

VARIABLES
    payment_records,  \* Mapping<Hash, PaymentInfo>: function on the stored ids
    threshold_value,  \* Balance
    admin,            \* AccountId
    expiry_time,      \* Timestamp
    salt,             \* u64
    now,              \* block_timestamp of the environment
    balance,          \* balance of the contract account
    transfers,        \* history: per id, the transfers committed out of escrow
    expired_claims,   \* history: the ids on which a receive_payment has
                      \* returned TimeLimitExceeded
    last              \* history: the call being answered, its arguments and its
                      \* result; the record Idle(..) between two calls

vars == <<payment_records, threshold_value, admin, expiry_time, salt, now,
          balance, transfers, expired_claims, last>>

\* ------------------------------------------------------------ helpers
\* u64::wrapping_add
wrapping_add(a, b) == (a + b) % (U64Max + 1)

\* Mapping::insert: writes the value, replacing any value stored under the key.
Insert(records, key, value) ==
    [k \in (DOMAIN records) \cup {key} |-> IF k = key THEN value ELSE records[k]]

\* Mapping::remove
Remove(records, key) == [k \in (DOMAIN records) \ {key} |-> records[k]]

\* The outcome of a message body: what it returns and what it has written,
\* sent and emitted when it returns.
Outcome(result, records, newSalt, threshold, expiry, sent, events, compared) ==
    [result |-> result, records |-> records, salt |-> newSalt,
     threshold |-> threshold, expiry |-> expiry, sent |-> sent,
     events |-> events, compared |-> compared]

\* A body that returns `result` having written, sent and emitted nothing.
Return(result) ==
    Outcome(result, payment_records, salt, threshold_value, expiry_time,
            <<>>, <<>>, "none")

\* A body that wrote `records` and nothing else of the storage.
Wrote(result, records, sent, events, compared) ==
    Outcome(result, records, salt, threshold_value, expiry_time,
            sent, events, compared)

\* ------------------------------------------------------------ the contract
\* create_payment_info with the attempts counter starting at 0.
create_payment_info_ZeroAttempts(receiver, sender, amount, otp) ==
    [sender |-> sender, receiver |-> receiver, amount |-> amount, otp |-> otp,
     otp_attempts |-> 0, recorded_time |-> now, status |-> "Waiting"]

\* fn create_payment_info
create_payment_info(receiver, sender, amount, otp) ==
    [sender |-> sender, receiver |-> receiver, amount |-> amount, otp |-> otp,
     otp_attempts |-> 1, recorded_time |-> now, status |-> "Waiting"]

\* fn get_transaction_id: Sha2x256 of the encoded record, modelled as injective:
\* the identifier is the tuple of the hashed fields.
get_transaction_id(payment_info) ==
    <<payment_info.sender, payment_info.receiver, payment_info.amount,
      payment_info.otp, payment_info.otp_attempts, payment_info.recorded_time,
      payment_info.status>>

\* A part of the OTP taken from the digest byte as it is.
OtpPart_NoPadding(b) == b

\* fn get_pseudo_random, the arithmetic on the first three digest bytes.  The
\* operations are wrapping_add and wrapping_mul of u32, which are + and * as
\* long as the results stay below 2^32.
OtpPart(b) == IF b < 100 THEN b + 100 ELSE b
get_pseudo_random(output) ==
    (OtpPart(output[1]) * 1000 + OtpPart(output[2])) * 1000 + OtpPart(output[3])

\* fn is_expired: "true", "false", or Panic when recorded_time + expiry_time
\* overflows (checked_add(..).unwrap()).
is_expired(recorded_time) ==
    IF recorded_time + expiry_time > U64Max THEN Panic
    ELSE IF now > recorded_time + expiry_time THEN "true"
    ELSE "false"

\* fn get_amount
get_amount(payment_info) == payment_info.amount

\* env().transfer(..): fails when the contract does not hold the amount, and
\* when the host refuses the transfer for a reason of its own (`host_ok` is
\* FALSE: the existential deposit of either account, for instance).
TransferOk(amount, host_ok) == host_ok /\ amount <= balance

\* A transfer out of escrow, as recorded in an outcome.
Sent(to, amount, kind) == [to |-> to, amount |-> amount, kind |-> kind]

\* send_payment without the test of insert's result: a colliding payment is
\* accepted and replaces the stored record.
send_payment_NoDuplicateCheck(caller, receiver, amount, amount_funded, output) ==
    IF amount # amount_funded THEN Return("BalanceMismatch")
    ELSE IF amount_funded = 0 THEN Return("ZeroBalance")
    ELSE IF amount < threshold_value THEN Return("BelowThresholdValue")
    ELSE
        LET payment_info == create_payment_info(receiver, caller, amount,
                                                get_pseudo_random(output))
        IN  Outcome("Ok",
                    Insert(payment_records, get_transaction_id(payment_info),
                           payment_info),
                    wrapping_add(salt, 1), threshold_value, expiry_time,
                    <<>>, <<"SecurePaymentRequested">>, "none")

\* send_payment without the comparison of the amount with the funded value.
send_payment_NoBalanceCheck(caller, receiver, amount, amount_funded, output) ==
    IF amount = 0 THEN Return("ZeroBalance")
    ELSE IF amount < threshold_value THEN Return("BelowThresholdValue")
    ELSE
        LET payment_info == create_payment_info(receiver, caller, amount,
                                                get_pseudo_random(output))
            transaction_id == get_transaction_id(payment_info)
        IN  IF transaction_id \in DOMAIN payment_records
            THEN Return("TxnIDAlreadExists")
            ELSE Outcome("Ok",
                         Insert(payment_records, transaction_id, payment_info),
                         wrapping_add(salt, 1), threshold_value, expiry_time,
                         <<>>, <<"SecurePaymentRequested">>, "none")

\* send_payment with the threshold tested before the zero amount.
send_payment_ThresholdFirst(caller, receiver, amount, amount_funded, output) ==
    IF amount # amount_funded THEN Return("BalanceMismatch")
    ELSE IF amount < threshold_value THEN Return("BelowThresholdValue")
    ELSE IF amount_funded = 0 THEN Return("ZeroBalance")
    ELSE
        LET payment_info == create_payment_info(receiver, caller, amount,
                                                get_pseudo_random(output))
            transaction_id == get_transaction_id(payment_info)
        IN  IF transaction_id \in DOMAIN payment_records
            THEN Return("TxnIDAlreadExists")
            ELSE Outcome("Ok",
                         Insert(payment_records, transaction_id, payment_info),
                         wrapping_add(salt, 1), threshold_value, expiry_time,
                         <<>>, <<"SecurePaymentRequested">>, "none")

\* #[ink(message, payable)] fn send_payment; `output` is the digest drawn for
\* get_pseudo_random.
send_payment(caller, receiver, amount, amount_funded, output) ==
    IF amount # amount_funded THEN Return("BalanceMismatch")
    ELSE IF amount_funded = 0 THEN Return("ZeroBalance")
    ELSE IF amount < threshold_value THEN Return("BelowThresholdValue")
    ELSE
        LET otp == get_pseudo_random(output)
            newSalt == wrapping_add(salt, 1)
            payment_info == create_payment_info(receiver, caller, amount, otp)
            transaction_id == get_transaction_id(payment_info)
            written == Insert(payment_records, transaction_id, payment_info)
        IN  IF transaction_id \in DOMAIN payment_records
            THEN Outcome("TxnIDAlreadExists", written, newSalt, threshold_value,
                         expiry_time, <<>>, <<>>, "none")
            ELSE Outcome("Ok", written, newSalt, threshold_value, expiry_time,
                         <<>>, <<"SecurePaymentRequested">>, "none")

\* The identifier send_payment computes for these arguments.
SendId(caller, receiver, amount, output) ==
    get_transaction_id(
        create_payment_info(receiver, caller, amount, get_pseudo_random(output)))

\* get_refund storing the refunded record under the hash of what it is now.
get_refund_Rekeys(caller, payment_id, host_ok) ==
    IF payment_id \notin DOMAIN payment_records THEN Return("PaymentRecordMissing")
    ELSE
        LET payment_info == payment_records[payment_id]
            expired == is_expired(payment_info.recorded_time)
            refunded == [payment_info EXCEPT !.status = "Refunded"]
        IN  IF caller # payment_info.sender THEN Return("InvalidSender")
            ELSE IF expired = Panic THEN Return(Panic)
            ELSE IF /\ expired = "true"
                    /\ payment_info.status # "Refunded"
                    /\ payment_info.status # "Success"
            THEN IF ~TransferOk(payment_info.amount, host_ok)
                 THEN Return(TransferFailed)
                 ELSE Wrote("Ok",
                            Insert(Remove(payment_records, payment_id),
                                   get_transaction_id(refunded), refunded),
                            <<Sent(payment_info.sender, payment_info.amount, "refund")>>,
                            <<"Refunded">>, "none")
            ELSE Return("NotAllowed")

\* get_refund storing the refunded record with its amount set to zero.
get_refund_ClearsAmount(caller, payment_id, host_ok) ==
    IF payment_id \notin DOMAIN payment_records THEN Return("PaymentRecordMissing")
    ELSE
        LET payment_info == payment_records[payment_id]
            expired == is_expired(payment_info.recorded_time)
            refunded == [payment_info EXCEPT !.status = "Refunded", !.amount = 0]
        IN  IF caller # payment_info.sender THEN Return("InvalidSender")
            ELSE IF expired = Panic THEN Return(Panic)
            ELSE IF /\ expired = "true"
                    /\ payment_info.status # "Refunded"
                    /\ payment_info.status # "Success"
            THEN IF ~TransferOk(payment_info.amount, host_ok)
                 THEN Return(TransferFailed)
                 ELSE Wrote("Ok", Insert(payment_records, payment_id, refunded),
                            <<Sent(payment_info.sender, payment_info.amount, "refund")>>,
                            <<"Refunded">>, "none")
            ELSE Return("NotAllowed")

\* get_refund with the record written before the transfer is made.
get_refund_WriteFirst(caller, payment_id, host_ok) ==
    IF payment_id \notin DOMAIN payment_records THEN Return("PaymentRecordMissing")
    ELSE
        LET payment_info == payment_records[payment_id]
            expired == is_expired(payment_info.recorded_time)
            refunded == [payment_info EXCEPT !.status = "Refunded"]
            written == Insert(payment_records, payment_id, refunded)
        IN  IF caller # payment_info.sender THEN Return("InvalidSender")
            ELSE IF expired = Panic THEN Return(Panic)
            ELSE IF /\ expired = "true"
                    /\ payment_info.status # "Refunded"
                    /\ payment_info.status # "Success"
            THEN IF ~TransferOk(payment_info.amount, host_ok)
                 THEN Wrote(TransferFailed, written, <<>>, <<>>, "none")
                 ELSE Wrote("Ok", written,
                            <<Sent(payment_info.sender, payment_info.amount, "refund")>>,
                            <<"Refunded">>, "none")
            ELSE Return("NotAllowed")

\* get_refund without the tests of the status.
get_refund_NoStatusCheck(caller, payment_id, host_ok) ==
    IF payment_id \notin DOMAIN payment_records THEN Return("PaymentRecordMissing")
    ELSE
        LET payment_info == payment_records[payment_id]
            expired == is_expired(payment_info.recorded_time)
            refunded == [payment_info EXCEPT !.status = "Refunded"]
        IN  IF caller # payment_info.sender THEN Return("InvalidSender")
            ELSE IF expired = Panic THEN Return(Panic)
            ELSE IF expired = "true"
            THEN IF ~TransferOk(payment_info.amount, host_ok)
                 THEN Return(TransferFailed)
                 ELSE Wrote("Ok", Insert(payment_records, payment_id, refunded),
                            <<Sent(payment_info.sender, payment_info.amount, "refund")>>,
                            <<"Refunded">>, "none")
            ELSE Return("NotAllowed")

\* #[ink(message)] fn get_refund
get_refund(caller, payment_id, host_ok) ==
    IF payment_id \notin DOMAIN payment_records THEN Return("PaymentRecordMissing")
    ELSE
        LET payment_info == payment_records[payment_id]
            expired == is_expired(payment_info.recorded_time)
            refunded == [payment_info EXCEPT !.status = "Refunded"]
        IN  IF caller # payment_info.sender THEN Return("InvalidSender")
            ELSE IF expired = Panic THEN Return(Panic)
            ELSE IF /\ expired = "true"
                    /\ payment_info.status # "Refunded"
                    /\ payment_info.status # "Success"
            THEN IF ~TransferOk(payment_info.amount, host_ok)
                 THEN Return(TransferFailed)
                 ELSE Wrote("Ok", Insert(payment_records, payment_id, refunded),
                            <<Sent(payment_info.sender, payment_info.amount, "refund")>>,
                            <<"Refunded">>, "none")
            ELSE Return("NotAllowed")

\* fn all_attempts_done
all_attempts_done(payment_info, payment_id, host_ok) ==
    IF ~TransferOk(payment_info.amount, host_ok) THEN Return(TransferFailed)
    ELSE Wrote("AttemptsExceedLimit", Remove(payment_records, payment_id),
               <<Sent(payment_info.sender, payment_info.amount, "attempts")>>,
               <<"AllAttemptsFailed">>, "mismatch")

\* fn one_attempt_done: the counter and the status are set on the local copy
\* of the record, which is not written back.
one_attempt_done(payment_info, payment_id) ==
    IF payment_info.otp_attempts + 1 > U8Max  \* checked_add(1) is None
    THEN Wrote("Overflow", payment_records, <<>>, <<>>, "mismatch")
    ELSE Wrote("WrongOTP", payment_records, <<>>, <<"Waiting">>, "mismatch")

\* receive_payment with the caller tested before the status.
receive_payment_CallerFirst(caller, payment_id, sent_otp, host_ok) ==
    IF payment_id \notin DOMAIN payment_records THEN Return("PaymentRecordMissing")
    ELSE
        LET payment_info == payment_records[payment_id]
            expired == is_expired(payment_info.recorded_time)
            success == [payment_info EXCEPT !.status = "Success"]
        IN  IF caller # payment_info.receiver THEN Return("InvalidReceiver")
            ELSE IF payment_info.status # "Waiting"
            THEN Return("AlreadyReceivedPayment")
            ELSE IF expired = Panic THEN Return(Panic)
            ELSE IF expired = "true"
            THEN Wrote("TimeLimitExceeded", payment_records, <<>>, <<"Expired">>, "none")
            ELSE IF payment_info.otp # sent_otp
            THEN Wrote("WrongOTP", payment_records, <<>>, <<"Waiting">>, "mismatch")
            ELSE IF ~TransferOk(payment_info.amount, host_ok)
            THEN Return(TransferFailed)
            ELSE Wrote("Ok", Insert(payment_records, payment_id, success),
                       <<Sent(payment_info.receiver, payment_info.amount, "claim")>>,
                       <<"Success">>, "match")

\* receive_payment without the test that the caller is the receiver.
receive_payment_AnyCaller(caller, payment_id, sent_otp, host_ok) ==
    IF payment_id \notin DOMAIN payment_records THEN Return("PaymentRecordMissing")
    ELSE
        LET payment_info == payment_records[payment_id]
            expired == is_expired(payment_info.recorded_time)
            success == [payment_info EXCEPT !.status = "Success"]
        IN  IF payment_info.status # "Waiting" THEN Return("AlreadyReceivedPayment")
            ELSE IF expired = Panic THEN Return(Panic)
            ELSE IF expired = "true"
            THEN Wrote("TimeLimitExceeded", payment_records, <<>>, <<"Expired">>, "none")
            ELSE IF payment_info.otp # sent_otp
            THEN Wrote("WrongOTP", payment_records, <<>>, <<"Waiting">>, "mismatch")
            ELSE IF ~TransferOk(payment_info.amount, host_ok)
            THEN Return(TransferFailed)
            ELSE Wrote("Ok", Insert(payment_records, payment_id, success),
                       <<Sent(payment_info.receiver, payment_info.amount, "claim")>>,
                       <<"Success">>, "match")

\* #[ink(message)] fn receive_payment
receive_payment(caller, payment_id, sent_otp, host_ok) ==
    IF payment_id \notin DOMAIN payment_records THEN Return("PaymentRecordMissing")
    ELSE
        LET payment_info == payment_records[payment_id]
            status == payment_info.status
            expired == is_expired(payment_info.recorded_time)
            success == [payment_info EXCEPT !.status = "Success"]
        IN  IF status # "Waiting" \/ status = "Refunded"
            THEN Return("AlreadyReceivedPayment")
            ELSE IF caller # payment_info.receiver THEN Return("InvalidReceiver")
            ELSE IF expired = Panic THEN Return(Panic)
            ELSE IF expired = "true"
            THEN Wrote("TimeLimitExceeded", payment_records, <<>>, <<"Expired">>, "none")
            ELSE IF payment_info.otp # sent_otp
            THEN IF payment_info.otp_attempts > ATTEMPTS_LIMIT
                 THEN all_attempts_done(payment_info, payment_id, host_ok)
                 ELSE one_attempt_done(payment_info, payment_id)
            ELSE IF ~TransferOk(get_amount(payment_info), host_ok)
            THEN Return(TransferFailed)
            ELSE Wrote("Ok", Insert(payment_records, payment_id, success),
                       <<Sent(payment_info.receiver, get_amount(payment_info), "claim")>>,
                       <<"Success">>, "match")

\* #[ink(message)] fn set_threshold_amount
set_threshold_amount(caller, value) ==
    IF admin = caller
    THEN Outcome("Ok", payment_records, salt, value, expiry_time, <<>>, <<>>, "none")
    ELSE Return("InvalidCaller")

\* set_expiry_period without the test of the caller.
set_expiry_period_AnyCaller(caller, time) ==
    Outcome("Ok", payment_records, salt, threshold_value, time, <<>>, <<>>, "none")

\* #[ink(message)] fn set_expiry_period
set_expiry_period(caller, time) ==
    IF admin = caller
    THEN Outcome("Ok", payment_records, salt, threshold_value, time, <<>>, <<>>, "none")
    ELSE Return("InvalidCaller")

\* What a view returns when it panics instead of returning a value.
ViewPanic == [panic |-> TRUE]

\* #[ink(message)] fn view_payment_record: the record, or a panic (unwrap of None).
view_payment_record(payment_id) ==
    IF payment_id \in DOMAIN payment_records THEN payment_records[payment_id]
    ELSE ViewPanic

\* #[ink(message)] fn view_payment_expiry_time: recorded_time + expiry_time with
\* the `+` of u64, which panics on overflow when the build checks overflow and
\* wraps when it does not.
view_payment_expiry_time(payment_id, overflow_checks) ==
    IF payment_id \notin DOMAIN payment_records THEN ViewPanic
    ELSE LET payment_created_time == payment_records[payment_id].recorded_time
         IN  IF payment_created_time + expiry_time > U64Max /\ overflow_checks
             THEN ViewPanic
             ELSE [time |-> wrapping_add(payment_created_time, expiry_time)]

\* An identifier no send_payment can produce (amount 0 is rejected).
NoSuchId == <<"admin", "admin", 0, 0, 1, 0, "Waiting">>

\* ------------------------------------------------------------ dispatch
\* The record of a call kept in `last`; fields a message does not take hold
\* the defaults given by the actions.
Call(op, caller, payment_id, receiver, amount, funded, sent_otp, value) ==
    [op |-> op, caller |-> caller, payment_id |-> payment_id,
     receiver |-> receiver, amount |-> amount, funded |-> funded,
     sent_otp |-> sent_otp, value |-> value,
     result |-> None, returned |-> None, sent |-> <<>>, events |-> <<>>,
     wrong_run |-> 0]

\* The transfers recorded for an identifier.
TransfersOf(id) == IF id \in DOMAIN transfers THEN transfers[id] ELSE <<>>

\* `last` between two calls.
Idle(payment_id, wrong_run) ==
    [Call("idle", AdminAccount, payment_id, AdminAccount, 0, 0, 0, 0)
        EXCEPT !.wrong_run = wrong_run]

\* The number of calls on `id`, this one included, that have followed one
\* another with no other call between them and reached the OTP test of
\* receive_payment with a wrong OTP.
WrongRun(id) ==
    IF last.payment_id = id THEN last.wrong_run + 1 ELSE 1

\* The contract takes the call: the call before it has been answered; a
\* wrong-OTP call may follow a wrong-OTP call on the same identifier at once.
Ready(call, out) ==
    \/ last.op = "idle"
    \/ /\ last.wrong_run > 0
       /\ last.payment_id = call.payment_id
       /\ out.compared = "mismatch"

\* What #[ink(message)] does with the outcome of a body: Ok commits the
\* storage, the transfers, the events and the value sent with the call; Err
\* and a panic revert all of them.
Committed(out) == out.result = "Ok"

Dispatch(call, out) ==
    /\ Ready(call, out)
    /\ payment_records' = IF Committed(out) THEN out.records ELSE payment_records
    /\ salt' = IF Committed(out) THEN out.salt ELSE salt
    /\ threshold_value' = IF Committed(out) THEN out.threshold ELSE threshold_value
    /\ expiry_time' = IF Committed(out) THEN out.expiry ELSE expiry_time
    /\ balance' = IF ~Committed(out) THEN balance
                  ELSE IF out.sent = <<>> THEN balance + call.funded
                  ELSE balance + call.funded - out.sent[1].amount
    /\ transfers' = IF Committed(out) /\ out.sent # <<>>
                    THEN Insert(transfers, call.payment_id,
                                Append(TransfersOf(call.payment_id), out.sent[1]))
                    ELSE transfers
    /\ expired_claims' = IF out.result = "TimeLimitExceeded"
                         THEN expired_claims \cup {call.payment_id}
                         ELSE expired_claims
    /\ last' = [call EXCEPT !.result = out.result,
                            !.sent = IF Committed(out) THEN out.sent ELSE <<>>,
                            !.events = IF Committed(out) THEN out.events ELSE <<>>,
                            !.wrong_run = IF out.compared = "mismatch"
                                          THEN WrongRun(call.payment_id) ELSE 0]
    /\ UNCHANGED <<admin, now>>

\* ------------------------------------------------------------ actions
\* The identifiers a caller tries: the stored ones and one that is not stored.
IdInputs == (DOMAIN payment_records) \cup {NoSuchId}

\* The OTPs a caller tries on an identifier: the stored one and a wrong one.
OtpInputs(payment_id) ==
    IF payment_id \in DOMAIN payment_records
    THEN {payment_records[payment_id].otp, BadOtp}
    ELSE {BadOtp}

\* The values a sender funds a payment of `amount` with: the amount itself
\* and a different value.
FundedInputs(amount) == {amount, (amount + 1) % (MaxAmount + 1)}

\* The values tried for expiry_time: the default and the largest.
ExpiryInputs == {ExpiryDefault, U64Max}

\* The values tried for threshold_value.
ThresholdInputs == {0, ThresholdDefault, MaxAmount}

Init ==
    /\ payment_records = <<>>
    /\ threshold_value = ThresholdDefault
    /\ admin = AdminAccount
    /\ expiry_time = ExpiryDefault
    /\ salt = 0
    /\ now = 0
    /\ balance = 0
    /\ transfers = <<>>
    /\ expired_claims = {}
    /\ last = Idle(NoSuchId, 0)

SendPayment ==
    \E caller \in Senders, receiver \in Receivers, amount \in Amounts,
       output \in HashOutputs :
      \E funded \in FundedInputs(amount) :
        /\ Cardinality(DOMAIN send_payment(caller, receiver, amount, funded,
                                          output).records) <= MaxRecords
        /\ Dispatch(Call("send_payment", caller,
                         IF send_payment(caller, receiver, amount, funded, output)
                                .result \in {"Ok", "TxnIDAlreadExists"}
                         THEN SendId(caller, receiver, amount, output)
                         ELSE NoSuchId,
                         receiver, amount, funded, 0, 0),
                    send_payment(caller, receiver, amount, funded, output))

GetRefund ==
    \E caller \in PaymentCallers, payment_id \in IdInputs, host_ok \in BOOLEAN :
        Dispatch(Call("get_refund", caller, payment_id, caller, 0, 0, 0, 0),
                 get_refund(caller, payment_id, host_ok))

ReceivePayment ==
    \E caller \in PaymentCallers, payment_id \in IdInputs, host_ok \in BOOLEAN :
        \E sent_otp \in OtpInputs(payment_id) :
            /\ receive_payment(caller, payment_id, sent_otp, host_ok).compared
                   = "mismatch" => WrongRun(payment_id) <= MaxGuesses
            /\ Dispatch(Call("receive_payment", caller, payment_id, caller,
                             0, 0, sent_otp, 0),
                        receive_payment(caller, payment_id, sent_otp, host_ok))

SetThresholdAmount ==
    \E caller \in SetterCallers, value \in ThresholdInputs :
        /\ admin \in Accounts
        /\ Dispatch(Call("set_threshold_amount", caller, NoSuchId, caller,
                         0, 0, 0, value),
                    set_threshold_amount(caller, value))

SetExpiryPeriod ==
    \E caller \in SetterCallers, time \in ExpiryInputs :
        /\ admin \in Accounts
        /\ Dispatch(Call("set_expiry_period", caller, NoSuchId, caller,
                         0, 0, 0, time),
                    set_expiry_period(caller, time))

\* A view changes nothing; `last` keeps what it returned.
Viewed(call, returned) ==
    /\ last.op = "idle"
    /\ last' = [call EXCEPT !.result = IF returned = ViewPanic THEN Panic ELSE "Ok",
                            !.returned = returned]
    /\ UNCHANGED <<payment_records, threshold_value, admin, expiry_time, salt,
                   now, balance, transfers, expired_claims>>

\* The views do not read the caller: one caller is tried.
ViewPaymentRecord ==
    \E payment_id \in IdInputs :
        Viewed(Call("view_payment_record", AdminAccount, payment_id, AdminAccount,
                    0, 0, 0, 0),
               view_payment_record(payment_id))

ViewPaymentExpiryTime ==
    \E payment_id \in IdInputs, overflow_checks \in BOOLEAN :
        Viewed(Call("view_payment_expiry_time", AdminAccount, payment_id,
                    AdminAccount, 0, 0, 0, 0),
               view_payment_expiry_time(payment_id, overflow_checks))

\* The call has been answered: the next call, or the next block, may come.
CallReturns ==
    /\ last.op # "idle"
    /\ last' = Idle(NoSuchId, 0)
    /\ UNCHANGED <<payment_records, threshold_value, admin, expiry_time, salt,
                   now, balance, transfers, expired_claims>>

\* The environment moves the block timestamp forward, between two calls.
AdvanceTime ==
    /\ last.op = "idle"
    /\ now < U64Max
    /\ now' = now + 1
    /\ UNCHANGED <<payment_records, threshold_value, admin, expiry_time, salt,
                   balance, transfers, expired_claims, last>>

Next ==
    \/ SendPayment
    \/ GetRefund
    \/ ReceivePayment
    \/ SetThresholdAmount
    \/ SetExpiryPeriod
    \/ ViewPaymentRecord
    \/ ViewPaymentExpiryTime
    \/ CallReturns
    \/ AdvanceTime

Spec == Init /\ [][Next]_vars

\* ------------------------------------------------------------ the OTP alone
\* The values tried for each of the three digest bytes: the ends of the range
\* of u8, both sides of the test `< 100`, and every ByteStep-th value.
DigestBytes == {b \in 0..U8Max : b % ByteStep = 0} \cup {99, 100, U8Max}

\* The contract after construction, and the digest the next get_pseudo_random
\* is going to draw.
OtpInit ==
    /\ payment_records = <<>>
    /\ threshold_value = ThresholdDefault
    /\ admin = AdminAccount
    /\ expiry_time = ExpiryDefault
    /\ salt = 0
    /\ now = 0
    /\ balance = 0
    /\ transfers = <<>>
    /\ expired_claims = {}
    /\ \E b0 \in DigestBytes, b1 \in DigestBytes, b2 \in DigestBytes :
          last = [output |-> <<b0, b1, b2>>] @@ Idle(NoSuchId, 0)

\* The first payment, whose OTP is made of the digest drawn.
OtpSendPayment ==
    /\ "output" \in DOMAIN last
    /\ Dispatch(Call("send_payment", "alice",
                     SendId("alice", "bob", MaxAmount, last.output),
                     "bob", MaxAmount, MaxAmount, 0, 0),
                send_payment("alice", "bob", MaxAmount, MaxAmount, last.output))

OtpNext == OtpSendPayment

OtpSpec == OtpInit /\ [][OtpNext]_vars

\* ------------------------------------------------------------ claims
\* The record stored under the identifier of the last call.
LastInfo == payment_records[last.payment_id]

\* C1: for every identifier, the number of transfers made out of escrow for it
\* (to the receiver by a claim, to the sender by a refund or by exhausted
\* attempts) never exceeds 1.
C1_ReleasedAtMostOnce ==
    \A id \in DOMAIN transfers : Len(transfers[id]) <= 1

\* A record was paid out to its receiver and the sender then asked for a
\* refund of it past the deadline, which was refused.
C1_Witness ==
    /\ last.op = "get_refund"
    /\ last.payment_id \in DOMAIN payment_records
    /\ last.caller = LastInfo.sender
    /\ LastInfo.status = "Success"
    /\ Len(TransfersOf(last.payment_id)) = 1
    /\ now > LastInfo.recorded_time + expiry_time
    /\ last.result = "NotAllowed"

\* C2: a step that transfers the funds of a record to its receiver is a call of
\* receive_payment made while the record is stored with status Waiting, by the
\* record's receiver, at a time now <= recorded_time + expiry_time, with the
\* stored OTP.
C2_ReceiverPaidOnlyByValidClaim ==
    [][\A id \in DOMAIN transfers' :
          (/\ Len(transfers'[id]) > Len(TransfersOf(id))
           /\ transfers'[id][Len(transfers'[id])].kind = "claim")
          => /\ last'.op = "receive_payment"
             /\ last'.payment_id = id
             /\ id \in DOMAIN payment_records
             /\ payment_records[id].status = "Waiting"
             /\ last'.caller = payment_records[id].receiver
             /\ now <= payment_records[id].recorded_time + expiry_time
             /\ last'.sent_otp = payment_records[id].otp]_vars

\* The receiver has just been paid, at the deadline itself.
C2_Witness ==
    /\ last.op = "receive_payment"
    /\ last.result = "Ok"
    /\ Len(last.sent) = 1
    /\ last.sent[1].kind = "claim"
    /\ last.sent[1].to = LastInfo.receiver
    /\ now = LastInfo.recorded_time + expiry_time

\* C3: for one identifier, at most ATTEMPTS_LIMIT + 1 calls of receive_payment
\* with a wrong OTP reach the OTP comparison.
C3_AttemptLimited ==
    last.wrong_run <= ATTEMPTS_LIMIT + 1

\* C4: after a successful send_payment, view_payment_record on the new
\* identifier returns a record with status Waiting, otp_attempts 1, the caller
\* as sender, the given receiver, recorded_time = now and the given amount.
C4_CreatedRecordViewed ==
    (last.op = "send_payment" /\ last.result = "Ok")
    => LET info == view_payment_record(last.payment_id)
       IN  /\ "panic" \notin DOMAIN info
           /\ info.status = "Waiting"
           /\ info.otp_attempts = 1
           /\ info.sender = last.caller
           /\ info.receiver = last.receiver
           /\ info.recorded_time = now
           /\ info.amount = last.amount

\* A payment of an amount equal to the threshold has just been accepted.
C4_Witness ==
    /\ last.op = "send_payment"
    /\ last.result = "Ok"
    /\ last.amount = last.funded
    /\ last.amount = threshold_value
    /\ last.payment_id \in DOMAIN payment_records

\* C5: send_payment with a funded value other than the amount returns
\* BalanceMismatch and changes neither the ledger, nor the salt, nor anything
\* else of the state.
C5_BalanceMismatch ==
    [][(last'.op = "send_payment" /\ last'.amount # last'.funded)
       => /\ last'.result = "BalanceMismatch"
          /\ UNCHANGED <<payment_records, salt, threshold_value, expiry_time,
                         admin, balance, transfers>>]_vars

\* A mismatching payment was refused although its amount alone was acceptable.
C5_Witness ==
    /\ last.op = "send_payment"
    /\ last.amount # last.funded
    /\ last.amount > 0
    /\ last.amount >= threshold_value
    /\ last.result = "BalanceMismatch"

\* C6: with funded = amount = 0 send_payment returns ZeroBalance whatever the
\* threshold, with funded = amount, amount > 0 and amount < threshold_value it
\* returns BelowThresholdValue, and in both cases the ledger is unchanged.
C6_ValidationOrder ==
    [][(last'.op = "send_payment" /\ last'.amount = last'.funded)
       => /\ last'.amount = 0
             => last'.result = "ZeroBalance" /\ payment_records' = payment_records
          /\ (last'.amount > 0 /\ last'.amount < threshold_value)
             => /\ last'.result = "BelowThresholdValue"
                /\ payment_records' = payment_records]_vars

\* A payment of zero was refused with ZeroBalance under a threshold of zero.
C6_Witness ==
    /\ last.op = "send_payment"
    /\ last.amount = 0
    /\ last.funded = 0
    /\ threshold_value = 0
    /\ last.result = "ZeroBalance"

\* C7: a send_payment whose identifier is already stored returns
\* TxnIDAlreadExists and leaves the ledger exactly as it was.
C7_DuplicateRejected ==
    [][(last'.op = "send_payment" /\ last'.payment_id \in DOMAIN payment_records)
       => /\ last'.result = "TxnIDAlreadExists"
          /\ payment_records' = payment_records]_vars

\* A payment colliding with a record that was already paid out was refused
\* and the record still shows Success.
C7_Witness ==
    /\ last.op = "send_payment"
    /\ last.result = "TxnIDAlreadExists"
    /\ last.payment_id \in DOMAIN payment_records
    /\ LastInfo.status = "Success"

\* C8: a receive_payment by the receiver with the stored OTP on a Waiting
\* record at a time now <= recorded_time + expiry_time, whose transfer the
\* host does not refuse, returns Ok, transfers the amount to the receiver and
\* stores status Success; a receive_payment on a record with status Success
\* returns AlreadyReceivedPayment and moves no funds.
C8_ClaimSucceedsOnce ==
    [][(last'.op = "receive_payment" /\ last'.payment_id \in DOMAIN payment_records)
       => LET id == last'.payment_id
              info == payment_records[id]
          IN  /\ (/\ info.status = "Waiting"
                  /\ last'.caller = info.receiver
                  /\ now <= info.recorded_time + expiry_time
                  /\ last'.sent_otp = info.otp
                  /\ last'.result # TransferFailed)
                 => /\ last'.result = "Ok"
                    /\ last'.sent = <<Sent(info.receiver, info.amount, "claim")>>
                    /\ id \in DOMAIN payment_records'
                    /\ payment_records'[id].status = "Success"
              /\ info.status = "Success"
                 => /\ last'.result = "AlreadyReceivedPayment"
                    /\ balance' = balance
                    /\ transfers' = transfers]_vars

\* C9: the first three consecutive wrong-OTP calls on a record return WrongOTP
\* and leave it Waiting with otp_attempts 2, 3 and 4; the fourth returns
\* AttemptsExceedLimit and removes the record, so that view_payment_record
\* panics on its identifier.
C9_WrongOtpCounted ==
    (last.op = "receive_payment" /\ last.wrong_run > 0)
    => /\ last.wrong_run <= ATTEMPTS_LIMIT
          => /\ last.result = "WrongOTP"
             /\ last.payment_id \in DOMAIN payment_records
             /\ LastInfo.status = "Waiting"
             /\ LastInfo.otp_attempts = last.wrong_run + 1
       /\ last.wrong_run = ATTEMPTS_LIMIT + 1
          => /\ last.result = "AttemptsExceedLimit"
             /\ last.payment_id \notin DOMAIN payment_records
             /\ view_payment_record(last.payment_id) = ViewPanic

\* C10: a receive_payment by the receiver on a Waiting record at a time
\* now > recorded_time + expiry_time returns TimeLimitExceeded with any OTP,
\* moves no funds, and leaves the record stored with status Expired.
C10_ExpiredClaim ==
    [][(last'.op = "receive_payment" /\ last'.payment_id \in DOMAIN payment_records)
       => LET id == last'.payment_id
              info == payment_records[id]
          IN  (/\ info.status = "Waiting"
               /\ last'.caller = info.receiver
               /\ now > info.recorded_time + expiry_time)
              => /\ last'.result = "TimeLimitExceeded"
                 /\ balance' = balance
                 /\ transfers' = transfers
                 /\ id \in DOMAIN payment_records'
                 /\ payment_records'[id].status = "Expired"]_vars

\* C11: once a receive_payment on an identifier has returned
\* TimeLimitExceeded, no later receive_payment on that identifier returns Ok or
\* transfers funds to the receiver, whatever set_expiry_period does in between.
C11_ExpiredIsTerminal ==
    [][(last'.op = "receive_payment" /\ last'.payment_id \in expired_claims)
       => /\ last'.result # "Ok"
          /\ last'.sent = <<>>
          /\ transfers' = transfers]_vars

\* C12: get_refund on a stored record returns InvalidSender to any caller but
\* the record's sender, whatever the time; to the sender at a time
\* now <= recorded_time + expiry_time it returns NotAllowed and changes nothing;
\* to the sender of a Waiting record at a time now > recorded_time + expiry_time,
\* when the host does not refuse the transfer, it returns Ok, transfers the
\* amount to the sender and stores status Refunded.
C12_Refund ==
    [][(last'.op = "get_refund" /\ last'.payment_id \in DOMAIN payment_records)
       => LET id == last'.payment_id
              info == payment_records[id]
          IN  /\ last'.caller # info.sender => last'.result = "InvalidSender"
              /\ (/\ last'.caller = info.sender
                  /\ now <= info.recorded_time + expiry_time)
                 => /\ last'.result = "NotAllowed"
                    /\ UNCHANGED <<payment_records, balance, transfers>>
              /\ (/\ last'.caller = info.sender
                  /\ info.status = "Waiting"
                  /\ now > info.recorded_time + expiry_time
                  /\ last'.result # TransferFailed)
                 => /\ last'.result = "Ok"
                    /\ last'.sent = <<Sent(info.sender, info.amount, "refund")>>
                    /\ id \in DOMAIN payment_records'
                    /\ payment_records'[id].status = "Refunded"]_vars

\* C13: a get_refund on a stored record with status Success or Refunded never
\* returns Ok and changes neither the ledger, nor the balance, nor the
\* transfers; made by the sender at a time now > recorded_time + expiry_time
\* it returns NotAllowed.
C13_NoRefundAfterRelease ==
    [][(/\ last'.op = "get_refund"
        /\ last'.payment_id \in DOMAIN payment_records
        /\ payment_records[last'.payment_id].status \in {"Success", "Refunded"})
       => LET info == payment_records[last'.payment_id]
          IN  /\ last'.result # "Ok"
              /\ last'.sent = <<>>
              /\ UNCHANGED <<payment_records, balance, transfers>>
              /\ (/\ last'.caller = info.sender
                  /\ now > info.recorded_time + expiry_time)
                 => last'.result = "NotAllowed"]_vars

\* The sender asked again for a refund of a record already refunded, past the
\* deadline, and was refused.
C13_Witness ==
    /\ last.op = "get_refund"
    /\ last.payment_id \in DOMAIN payment_records
    /\ last.caller = LastInfo.sender
    /\ LastInfo.status = "Refunded"
    /\ Len(TransfersOf(last.payment_id)) = 1
    /\ now > LastInfo.recorded_time + expiry_time
    /\ last.result = "NotAllowed"

\* C14: set_threshold_amount and set_expiry_period called by the administrator
\* of construction return Ok and assign the given value to threshold_value,
\* respectively expiry_time, and to nothing else; called by anyone else they
\* return InvalidCaller and leave threshold_value, expiry_time, admin, salt and
\* the ledger unchanged.
C14_AdminOnly ==
    [][(last'.op \in {"set_threshold_amount", "set_expiry_period"})
       => /\ admin' = AdminAccount
          /\ UNCHANGED <<payment_records, salt, balance, transfers>>
          /\ last'.caller = AdminAccount
             => /\ last'.result = "Ok"
                /\ last'.op = "set_threshold_amount"
                   => threshold_value' = last'.value /\ expiry_time' = expiry_time
                /\ last'.op = "set_expiry_period"
                   => expiry_time' = last'.value /\ threshold_value' = threshold_value
          /\ last'.caller # AdminAccount
             => /\ last'.result = "InvalidCaller"
                /\ UNCHANGED <<threshold_value, expiry_time>>]_vars

\* An account other than the administrator asked for another expiry period
\* and was refused.
C14_Witness ==
    /\ last.op = "set_expiry_period"
    /\ last.caller # admin
    /\ last.value # expiry_time
    /\ last.result = "InvalidCaller"

\* C15: view_payment_record and view_payment_expiry_time called with an
\* identifier that is not stored return the error RecordNotFound.
C15_ViewUnknownId ==
    (/\ last.op \in {"view_payment_record", "view_payment_expiry_time"}
     /\ last.payment_id \notin DOMAIN payment_records)
    => last.result = "RecordNotFound"

\* C16: view_payment_expiry_time on a stored record returns
\* recorded_time + expiry_time when the sum is at most u64::MAX, and the error
\* Overflow when it is not.
C16_ViewDeadline ==
    (/\ last.op = "view_payment_expiry_time"
     /\ last.payment_id \in DOMAIN payment_records)
    => IF LastInfo.recorded_time + expiry_time <= U64Max
       THEN /\ last.result = "Ok"
            /\ last.returned = [time |-> LastInfo.recorded_time + expiry_time]
       ELSE last.result = "Overflow"

\* C17: no receive_payment and no get_refund ends in the panic of is_expired:
\* each returns Ok or an error of the enumeration.
C17_NeverAborts ==
    last.op \in {"receive_payment", "get_refund"} => last.result # Panic

\* C18: when the host refuses the transfer of a receive_payment or of a
\* get_refund, the body has written nothing to the ledger and emitted nothing
\* at the point where it stops, and the call commits nothing: the ledger, the
\* balance and the transfers are unchanged and no event is emitted.
C18_TransferBeforeWrite ==
    [][(/\ last'.op \in {"receive_payment", "get_refund"}
        /\ last'.result = TransferFailed)
       => LET out == IF last'.op = "get_refund"
                     THEN get_refund(last'.caller, last'.payment_id, FALSE)
                     ELSE receive_payment(last'.caller, last'.payment_id,
                                          last'.sent_otp, FALSE)
          IN  /\ out.result = TransferFailed
              /\ out.records = payment_records
              /\ out.events = <<>>
              /\ out.sent = <<>>
              /\ last'.events = <<>>
              /\ last'.sent = <<>>
              /\ UNCHANGED <<payment_records, balance, transfers>>]_vars

\* The host refused the transfer of a refund that was due: the record is
\* still Waiting and nothing has left the escrow.
C18_Witness ==
    /\ last.op = "get_refund"
    /\ last.result = TransferFailed
    /\ last.payment_id \in DOMAIN payment_records
    /\ last.caller = LastInfo.sender
    /\ LastInfo.status = "Waiting"
    /\ now > LastInfo.recorded_time + expiry_time
    /\ TransfersOf(last.payment_id) = <<>>
    /\ balance >= LastInfo.amount

\* C19: for the digest bytes b0, b1, b2 drawn by a send_payment, each part
\* (the byte, plus 100 when it is below 100) lies in 100..255, the prefix
\* part1 * 1000 + part2 is at most 255255, so that neither wrapping_mul(1000)
\* nor wrapping_add leaves the range of u32, and the OTP stored in the record
\* is (part1 * 1000 + part2) * 1000 + part3, a number of 9 decimal digits in
\* 100100100..255255255.
C19_OtpNineDigits ==
    [][("output" \in DOMAIN last /\ last'.op = "send_payment")
       => LET part1 == OtpPart(last.output[1])
              part2 == OtpPart(last.output[2])
              part3 == OtpPart(last.output[3])
              prefix == part1 * 1000 + part2
              otp == payment_records'[last'.payment_id].otp
          IN  /\ last'.result = "Ok"
              /\ \A part \in {part1, part2, part3} : part >= 100 /\ part <= U8Max
              /\ prefix <= 255255
              /\ otp = prefix * 1000 + part3
              /\ otp = get_pseudo_random(last.output)
              /\ otp >= 100000000 /\ otp <= 999999999
              /\ otp >= 100100100 /\ otp <= 255255255]_vars

\* A record was stored whose OTP comes from the bytes 0, 99 and 255.
C19_Witness ==
    /\ last.op = "send_payment"
    /\ last.result = "Ok"
    /\ last.payment_id \in DOMAIN payment_records
    /\ LastInfo.otp = 100199255

\* C20: in every step, a stored status Success or Refunded stays what it is
\* and its record stays stored; a stored Expired stays Expired or becomes
\* Refunded; a stored Waiting becomes Waiting, Success, Expired or Refunded, or
\* its record is removed; no stored status other than Waiting becomes Waiting.
C20_StatusForward ==
    [][\A id \in DOMAIN payment_records :
          LET status == payment_records[id].status
              stored == id \in DOMAIN payment_records'
          IN  /\ status \in {"Success", "Refunded"}
                 => stored /\ payment_records'[id].status = status
              /\ status = "Expired"
                 => stored /\ payment_records'[id].status \in {"Expired", "Refunded"}
              /\ (status = "Waiting" /\ stored)
                 => payment_records'[id].status
                        \in {"Waiting", "Success", "Expired", "Refunded"}
              /\ (status # "Waiting" /\ stored)
                 => payment_records'[id].status # "Waiting"]_vars

\* The receiver claimed a record that had been refunded and was refused: the
\* record is still Refunded.
C20_Witness ==
    /\ last.op = "receive_payment"
    /\ last.payment_id \in DOMAIN payment_records
    /\ last.caller = LastInfo.receiver
    /\ last.sent_otp = LastInfo.otp
    /\ LastInfo.status = "Refunded"
    /\ last.result = "AlreadyReceivedPayment"

\* C21: in every step, a record that is stored before and after the step has
\* the same sender, receiver, amount, otp and recorded_time after it as before.
C21_FieldsFixed ==
    [][\A id \in (DOMAIN payment_records) \cap (DOMAIN payment_records') :
          /\ payment_records'[id].sender = payment_records[id].sender
          /\ payment_records'[id].receiver = payment_records[id].receiver
          /\ payment_records'[id].amount = payment_records[id].amount
          /\ payment_records'[id].otp = payment_records[id].otp
          /\ payment_records'[id].recorded_time = payment_records[id].recorded_time]_vars

\* A record has just been refunded: it is stored with the amount that was
\* sent back.
C21_Witness ==
    /\ last.op = "get_refund"
    /\ last.result = "Ok"
    /\ last.payment_id \in DOMAIN payment_records
    /\ LastInfo.status = "Refunded"
    /\ LastInfo.amount > 0
    /\ last.sent = <<Sent(LastInfo.sender, LastInfo.amount, "refund")>>

\* C22: a receive_payment that reaches the OTP test with a wrong OTP, on a
\* record stored with otp_attempts = a: when a + 1 > ATTEMPTS_LIMIT it returns
\* AttemptsExceedLimit, sends the amount back to the sender and removes the
\* record; otherwise it returns WrongOTP and leaves the record stored, Waiting,
\* with otp_attempts = a + 1.
C22_IncrementThenTest ==
    [][(last'.op = "receive_payment" /\ last'.wrong_run > 0)
       => LET id == last'.payment_id
              info == payment_records[id]
          IN  IF info.otp_attempts + 1 > ATTEMPTS_LIMIT
              THEN /\ last'.result = "AttemptsExceedLimit"
                   /\ id \notin DOMAIN payment_records'
                   /\ TransfersOf(id) # transfers'[id]
              ELSE /\ last'.result = "WrongOTP"
                   /\ id \in DOMAIN payment_records'
                   /\ payment_records'[id].status = "Waiting"
                   /\ payment_records'[id].otp_attempts = info.otp_attempts + 1]_vars

\* C23: after a get_refund that returned Ok its identifier is not stored and
\* view_payment_record fails on it; after a receive_payment that returned Ok
\* its record is stored with status Success.
C23_RefundDeletes ==
    /\ (last.op = "get_refund" /\ last.result = "Ok")
       => /\ last.payment_id \notin DOMAIN payment_records
          /\ view_payment_record(last.payment_id) = ViewPanic
    /\ (last.op = "receive_payment" /\ last.result = "Ok")
       => /\ last.payment_id \in DOMAIN payment_records
          /\ view_payment_record(last.payment_id).status = "Success"

\* C24: every stored record is stored under the identifier that
\* get_transaction_id gives for its own sender, receiver, amount, otp and
\* recorded_time with otp_attempts 1 and status Waiting.
C24_KeyIsCreationHash ==
    \A id \in DOMAIN payment_records :
        id = get_transaction_id([payment_records[id] EXCEPT !.otp_attempts = 1,
                                                            !.status = "Waiting"])

\* A record that was paid out is stored, as Success, under the identifier it
\* was created with.
C24_Witness ==
    /\ last.op = "receive_payment"
    /\ last.result = "Ok"
    /\ last.payment_id \in DOMAIN payment_records
    /\ LastInfo.status = "Success"
    /\ last.payment_id = get_transaction_id([LastInfo EXCEPT !.status = "Waiting"])

\* C25: a send_payment that passes the tests of the amount, and so calls
\* get_pseudo_random, leaves the salt one higher modulo 2^64 than it found it,
\* whether it then stores its record or finds the identifier taken; no other
\* step changes the salt.
C25_SaltCounts ==
    [][salt' = IF /\ last'.op = "send_payment"
                  /\ last'.result \in {"Ok", "TxnIDAlreadExists"}
               THEN wrapping_add(salt, 1)
               ELSE salt]_vars

\* The sum of the amounts of the records stored under `ids` that still hold
\* their funds.
RECURSIVE Escrowed(_)
Escrowed(ids) ==
    IF ids = {} THEN 0
    ELSE LET id == CHOOSE i \in ids : TRUE
             held == IF payment_records[id].status \in {"Waiting", "Expired"}
                     THEN payment_records[id].amount ELSE 0
         IN  held + Escrowed(ids \ {id})

\* C26: the balance of the contract, which is the funded values of the
\* payments accepted less the amounts transferred out, is the sum of the
\* amounts of the stored records with status Waiting or Expired.
C26_EscrowConserved ==
    balance = Escrowed(DOMAIN payment_records)

\* A payment colliding with a record still Waiting was refused: the contract
\* holds the amount of that record and no more.
C26_Witness ==
    /\ last.op = "send_payment"
    /\ last.result = "TxnIDAlreadExists"
    /\ last.funded > 0
    /\ last.payment_id \in DOMAIN payment_records
    /\ LastInfo.status = "Waiting"
    /\ balance = LastInfo.amount

\* C27: in every state, for every stored Waiting record, with a host that
\* does not refuse the transfer, a receive_payment by the receiver with the
\* stored OTP returns Ok exactly when now <= recorded_time + expiry_time, and a
\* get_refund by the sender returns Ok exactly when
\* now > recorded_time + expiry_time.
C27_ClaimXorRefund ==
    \A id \in DOMAIN payment_records :
        LET info == payment_records[id]
            claimed == receive_payment(info.receiver, id, info.otp, TRUE).result
            refunded == get_refund(info.sender, id, TRUE).result
        IN  info.status = "Waiting"
            => /\ claimed = "Ok" <=> now <= info.recorded_time + expiry_time
               /\ refunded = "Ok" <=> now > info.recorded_time + expiry_time

\* C28: a receive_payment that returns PaymentRecordMissing,
\* AlreadyReceivedPayment or InvalidReceiver, and a get_refund that returns
\* PaymentRecordMissing, InvalidSender or NotAllowed, has written, sent and
\* emitted nothing when it returns and leaves the ledger, threshold_value,
\* expiry_time, admin, the salt, the balance and the transfers unchanged; a
\* receive_payment on a stored record that is not Waiting returns
\* AlreadyReceivedPayment whoever calls it.
C28_FailedCallsChangeNothing ==
    [][/\ (\/ /\ last'.op = "receive_payment"
              /\ last'.result \in {"PaymentRecordMissing", "AlreadyReceivedPayment",
                                    "InvalidReceiver"}
           \/ /\ last'.op = "get_refund"
              /\ last'.result \in {"PaymentRecordMissing", "InvalidSender",
                                    "NotAllowed"})
          => LET out == IF last'.op = "get_refund"
                        THEN get_refund(last'.caller, last'.payment_id, TRUE)
                        ELSE receive_payment(last'.caller, last'.payment_id,
                                             last'.sent_otp, TRUE)
             IN  /\ out = Return(last'.result)
                 /\ last'.sent = <<>>
                 /\ last'.events = <<>>
                 /\ UNCHANGED <<payment_records, threshold_value, expiry_time,
                                admin, salt, balance, transfers>>
       /\ (/\ last'.op = "receive_payment"
           /\ last'.payment_id \in DOMAIN payment_records
           /\ payment_records[last'.payment_id].status # "Waiting")
          => last'.result = "AlreadyReceivedPayment"]_vars

\* An account that is not the receiver claimed a record already paid out and
\* was answered that the payment had been received.
C28_Witness ==
    /\ last.op = "receive_payment"
    /\ last.payment_id \in DOMAIN payment_records
    /\ last.caller # LastInfo.receiver
    /\ LastInfo.status = "Success"
    /\ last.result = "AlreadyReceivedPayment"

====
